---- MODULE Spec2Model ----
(***************************************************************************)
(* Model of scripts/update_stats.py: the credential check, the GraphQL     *)
(* call, the paginated star count, the rate-limit guard, the README patch  *)
(* and the top-level failure boundary.  Text is modelled as sequences of   *)
(* one-character strings (code points above ASCII are written "U+XXXX"),   *)
(* so that str.find, slicing, split and strip are computed, not assumed.   *)
(***************************************************************************)
EXTENDS Integers, Sequences, FiniteSets, TLC

(* ---------------- bounds of the environment ---------------- *)
MaxPages == 3
MaxSegs == 3
MaxOversleep == 1

(* clock ticks per second: time.time() is a float, a tick is half a second *)
TicksPerSec == 2

(* ---------------- string literals ---------------- *)
GITHUB_API_URL_REPOS ==
  <<
    "h","t","t","p","s",":","/","/","a","p","i",".","g","i","t","h","u","b",
    ".","c","o","m","/","u","s","e","r","/","r","e","p","o","s" >>

OwnerQuery ==
  <<
    "?","t","y","p","e","=","o","w","n","e","r","&","p","e","r","_","p","a",
    "g","e","=","1","0","0" >>

PageParam ==
  <<
    "&","p","a","g","e","=" >>

start_marker ==
  <<
    "<","!","-","-","S","T","A","T","S","_","S","T","A","R","T","-","-",">" >>

end_marker ==
  <<
    "<","!","-","-","S","T","A","T","S","_","E","N","D","-","-",">" >>

RelNext ==
  <<
    "r","e","l","=","\"","n","e","x","t","\"" >>

RelPrevAttr ==
  <<
    ">",";"," ","r","e","l","=","\"","p","r","e","v","\"" >>

RelNextAttr ==
  <<
    ">",";"," ","r","e","l","=","\"","n","e","x","t","\"" >>

RelLastAttr ==
  <<
    ">",";"," ","r","e","l","=","\"","l","a","s","t","\"" >>

RelFirstAttr ==
  <<
    ">",";"," ","r","e","l","=","\"","f","i","r","s","t","\"" >>

StatsBadge ==
  <<
    "\n","!","[","G","i","t","H","u","b"," ","S","t","a","t","s","]","(","h",
    "t","t","p","s",":","/","/","g","i","t","h","u","b","-","r","e","a","d",
    "m","e","-","s","t","a","t","s",".","v","e","r","c","e","l",".","a","p",
    "p","/","a","p","i","?","u","s","e","r","n","a","m","e","=","p","h","o",
    "n","e","m","i","n","t","h","u","&","s","h","o","w","_","i","c","o","n",
    "s","=","t","r","u","e",")","\n" >>

StatsContributions ==
  <<
    "U+1F3C6"," ","*","*","C","o","n","t","r","i","b","u","t","i","o","n","s",
    ":","*","*"," " >>

StatsCommits ==
  <<
    "\n","U+1F4E6"," ","*","*","T","o","t","a","l"," ","c","o","m","m","i",
    "t","s",":","*","*"," " >>

StatsStars ==
  <<
    "\n","U+2728"," ","*","*","S","t","a","r","s"," ","r","e","c","e","i","v",
    "e","d",":","*","*"," " >>

StatsPrs ==
  <<
    "\n","U+1F500"," ","*","*","P","R","s"," ","m","e","r","g","e","d",":",
    "*","*"," " >>

StatsTail ==
  <<
    "\n"," "," "," "," " >>

(* ---------------- Python built-ins, as the script uses them ---------------- *)
None == "None"

RECURSIVE Concat(_)
Concat(ss) ==
  IF ss = << >> THEN << >> ELSE Head(ss) \o Concat(Tail(ss))

RECURSIVE SumSeq(_)
SumSeq(s) ==
  IF s = << >> THEN 0 ELSE Head(s) + SumSeq(Tail(s))

Digit(d) ==
  <<"0","1","2","3","4","5","6","7","8","9">>[d + 1]

RECURSIVE Str(_)
Str(n) ==
  IF n < 10 THEN << Digit(n) >> ELSE Str(n \div 10) \o << Digit(n % 10) >>

MatchAt(s, sub, i) ==
  /\ i + Len(sub) <= Len(s)
  /\ \A k \in 1..Len(sub) : s[i + k] = sub[k]

Find(s, sub) ==
  LET hits == { i \in 0..Len(s) : MatchAt(s, sub, i) }
  IN  IF hits = {} THEN -1 ELSE CHOOSE i \in hits : \A j \in hits : i <= j

Contains(s, sub) ==
  Find(s, sub) # -1

SliceIndexClamp(s, i) ==
  IF i < 0 THEN 0 ELSE IF i > Len(s) THEN Len(s) ELSE i

SliceIndex(s, i) ==
  IF i < 0 THEN (IF i + Len(s) < 0 THEN 0 ELSE i + Len(s))
  ELSE IF i > Len(s) THEN Len(s) ELSE i

SliceTo(s, stop) ==
  SubSeq(s, 1, SliceIndex(s, stop))

SliceFrom(s, start) ==
  SubSeq(s, SliceIndex(s, start) + 1, Len(s))

RECURSIVE Split(_, _)
Split(s, sep) ==
  LET i == Find(s, << sep >>)
  IN  IF i = -1 THEN << s >>
      ELSE << SubSeq(s, 1, i) >> \o Split(SubSeq(s, i + 2, Len(s)), sep)

RECURSIVE LStrip(_, _)
LStrip(s, chars) ==
  IF s # << >> /\ Head(s) \in chars THEN LStrip(Tail(s), chars) ELSE s

RECURSIVE RStrip(_, _)
RStrip(s, chars) ==
  IF s # << >> /\ s[Len(s)] \in chars
  THEN RStrip(SubSeq(s, 1, Len(s) - 1), chars) ELSE s

Strip(s, chars) ==
  RStrip(LStrip(s, chars), chars)

HeaderGet(headers, name, default) ==
  IF name \in DOMAIN headers THEN headers[name] ELSE default

IntOfTime(t) ==
  t \div TicksPerSec

(* ---------------- the script's pure parts ---------------- *)
LowWaterMark == 50

SleepBuffer == 1

FirstReposUrl ==
  GITHUB_API_URL_REPOS \o OwnerQuery

FirstNextPartAny(parts) ==
  IF parts = << >> THEN << >>
  ELSE Strip(Head(Split(Head(parts), ";")), {"<", ">", " "})

RECURSIVE FirstNextPart(_)
FirstNextPart(parts) ==
  IF parts = << >> THEN << >>
  ELSE IF Contains(Head(parts), RelNext)
       THEN Strip(Head(Split(Head(parts), ";")), {"<", ">", " "})
       ELSE FirstNextPart(Tail(parts))

NextUrlUnquoted(link_header) ==
  IF Contains(link_header, << "r", "e", "l", "=", "n", "e", "x", "t" >>)
  THEN FirstNextPart(Split(link_header, ","))
  ELSE << >>

NextUrl(link_header) ==
  IF Contains(link_header, RelNext)
  THEN FirstNextPart(Split(link_header, ","))
  ELSE << >>

SleepTimeNoBuffer(response, now1, now2) ==
  LET reset == HeaderGet(response.headers, "X-RateLimit-Reset", IntOfTime(now1))
  IN  reset * TicksPerSec - now2

SleepTime(response, now1, now2) ==
  LET reset == HeaderGet(response.headers, "X-RateLimit-Reset", IntOfTime(now1))
  IN  reset * TicksPerSec - now2 + SleepBuffer * TicksPerSec

MustSleep(response, now1, now2) ==
  /\ HeaderGet(response.headers, "X-RateLimit-Remaining", 5000) < LowWaterMark
  /\ SleepTime(response, now1, now2) > 0

NewStats(contributions, commits, stars, prs) ==
  StatsBadge \o StatsContributions \o Str(contributions)
    \o StatsCommits \o Str(commits)
    \o StatsStars \o Str(stars)
    \o StatsPrs \o Str(prs) \o StatsTail

UpdatedReadme(readme_contents, contributions, commits, stars, prs) ==
  LET start_idx == Find(readme_contents, start_marker) + Len(start_marker)
      end_idx == Find(readme_contents, end_marker)
  IN  SliceTo(readme_contents, start_idx)
        \o NewStats(contributions, commits, stars, prs)
        \o SliceFrom(readme_contents, end_idx)
(* ---------------- the environment: GitHub and the file system ---------------- *)
PageUrl(k) ==
  FirstReposUrl \o PageParam \o Str(k)

PageOf(chain, u) ==
  IF u = FirstReposUrl THEN 1
  ELSE LET ks == { k \in 1..Len(chain) : PageUrl(k) = u }
       IN  IF ks = {} THEN 0 ELSE CHOOSE k \in ks : TRUE

LinkEntry(k, attr) ==
  << "<" >> \o PageUrl(k) \o attr

RECURSIVE JoinLinks(_)
JoinLinks(entries) ==
  IF Len(entries) = 1 THEN Head(entries)
  ELSE Head(entries) \o << ",", " " >> \o JoinLinks(Tail(entries))

LinkHeader(k, n) ==
  JoinLinks(
    (IF k > 1 THEN << LinkEntry(k - 1, RelPrevAttr) >> ELSE << >>)
    \o (IF k < n THEN << LinkEntry(k + 1, RelNextAttr),
                         LinkEntry(n, RelLastAttr) >> ELSE << >>)
    \o (IF k > 1 THEN << LinkEntry(1, RelFirstAttr) >> ELSE << >>))

NoHeaders ==
  [h \in {} |-> 0]

(* the quota window ends at a fixed time: second 6 is after the start of the *)
(* run, second 1 is before it                                                *)
RateHeaders ==
  { NoHeaders,
    "X-RateLimit-Remaining" :> 49,
    ("X-RateLimit-Remaining" :> 49) @@ ("X-RateLimit-Reset" :> 6),
    ("X-RateLimit-Remaining" :> 49) @@ ("X-RateLimit-Reset" :> 1),
    ("X-RateLimit-Remaining" :> 50) @@ ("X-RateLimit-Reset" :> 6) }

ErrorRateHeaders ==
  { NoHeaders,
    ("X-RateLimit-Remaining" :> 49) @@ ("X-RateLimit-Reset" :> 6) }

ViewerData ==
  [totalContributions |-> 42, commitCounts |-> <<3, 4>>, totalCount |-> 1]

GraphqlBodies ==
  { "data" :> ViewerData,
    "errors" :> 1,
    ("data" :> ViewerData) @@ ("errors" :> 1),
    "message" :> 1 }

ErrorResponses(status) ==
  [status : {status}, headers : ErrorRateHeaders, json : {<< >>},
   link : {<< >>}]

GraphqlResponses ==
  [status : {200}, headers : RateHeaders, json : GraphqlBodies, link : {<< >>}]
    \cup ErrorResponses(401)

RestResponses(chain, u) ==
  LET k == PageOf(chain, u)
  IN  IF k = 0
      THEN ErrorResponses(404)
      ELSE [status : {200}, headers : RateHeaders, json : {chain[k]},
            link : {IF Len(chain) = 1 THEN << >> ELSE LinkHeader(k, Len(chain))}]
             \cup ErrorResponses(401)

NoResponse ==
  [status |-> 0, headers |-> NoHeaders, json |-> << >>, link |-> << >>]

RECURSIVE SeqsUpTo(_, _)
SeqsUpTo(S, n) ==
  IF n = 0 THEN { << >> }
  ELSE LET shorter == SeqsUpTo(S, n - 1)
       IN  shorter \cup { Append(s, x) : s \in shorter, x \in S }

(* pages of star counts; the page sums 0, 1 and 5 tell apart which pages a  *)
(* total counted                                                             *)
SamplePages ==
  { << >>, << 1 >>, << 2, 3 >> }

Chains ==
  SeqsUpTo(SamplePages, MaxPages) \ { << >> }

Segments ==
  { start_marker, end_marker, << "A" >>, << "o", "l", "d" >> }

Readmes ==
  { Concat(ss) : ss \in SeqsUpTo(Segments, MaxSegs) }

ExampleReadme ==
  << "A" >> \o start_marker \o << "o", "l", "d" >> \o end_marker \o << "B" >>

Environs ==
  { [v \in {} |-> << >>], "GH_TOKEN" :> << >>, "GH_TOKEN" :> << "t" >> }
(* ---------------- the program ---------------- *)
VARIABLES environ, clock, file, pages, pc, requests, response, checked,
          checkEntry, slept, url, stars, total_stars, contributions, commits,
          merged_prs, readme_contents, exc, stdout, exitCode, writes

vars ==
  << environ, clock, file, pages, pc, requests, response, checked,
     checkEntry, slept, url, stars, total_stars, contributions, commits,
     merged_prs, readme_contents, exc, stdout, exitCode, writes >>

envVars ==
  << environ, pages >>

netVars ==
  << requests, response, checked, checkEntry, slept >>

dataVars ==
  << url, stars, total_stars, contributions, commits, merged_prs >>

fileVars ==
  << file, readme_contents, writes >>

InitProgram ==
  /\ clock = 2 * TicksPerSec + 1
  /\ pc = "module"
  /\ requests = << >>
  /\ response = NoResponse
  /\ checked = FALSE
  /\ checkEntry = 0
  /\ slept = 0
  /\ url = << >>
  /\ stars = 0
  /\ total_stars = 0
  /\ contributions = 0
  /\ commits = 0
  /\ merged_prs = 0
  /\ readme_contents = << >>
  /\ exc = None
  /\ stdout = << >>
  /\ exitCode = -1
  /\ writes = 0

Init ==
  /\ environ \in Environs
  /\ pages \in Chains
  /\ file = [exists |-> TRUE, text |-> ExampleReadme]
  /\ InitProgram

InitPatch ==
  /\ environ \in Environs
  /\ pages = << << 1 >>, << 2, 3 >> >>
  /\ file \in [exists : {TRUE}, text : Readmes]
               \cup { [exists |-> FALSE, text |-> << >>] }
  /\ InitProgram

TokenMissingUnsetOnly ==
  "GH_TOKEN" \notin DOMAIN environ

TokenMissing ==
  \/ "GH_TOKEN" \notin DOMAIN environ
  \/ environ["GH_TOKEN"] = << >>

Raise(e) ==
  /\ exc' = e
  /\ pc' = "except"

ModuleLevel ==
  /\ pc = "module"
  /\ IF TokenMissing
     THEN /\ stdout' = stdout \o << "no_token" >>
          /\ exitCode' = 0
          /\ pc' = "exited"
     ELSE /\ pc' = "gql_post"
          /\ UNCHANGED << stdout, exitCode >>
  /\ UNCHANGED << envVars, netVars, dataVars, fileVars, clock, exc >>

Receive(method, u, r, next_pc) ==
  /\ requests' = Append(requests, [method |-> method, url |-> u, status |-> r.status])
  /\ response' = r
  /\ checked' = FALSE
  /\ pc' = next_pc
  /\ UNCHANGED << checkEntry, slept, exc >>

TransportError(method, u) ==
  /\ requests' = Append(requests,
                        [method |-> method, url |-> u, status |-> 0])
  /\ Raise("ConnectionError")
  /\ UNCHANGED << response, checked, checkEntry, slept >>

GraphqlPost ==
  /\ pc = "gql_post"
  /\ \/ \E r \in GraphqlResponses : Receive("POST", << >>, r, "gql_check")
     \/ TransportError("POST", << >>)
  /\ UNCHANGED << envVars, dataVars, fileVars, clock, stdout, exitCode >>

check_rate_limit(next_pc) ==
  /\ checkEntry' = clock
  /\ checked' = TRUE
  /\ pc' = next_pc
  /\ IF MustSleep(response, clock, clock)
     THEN /\ slept' = SleepTime(response, clock, clock)
          /\ stdout' = stdout \o << "rate_limit_sleep" >>
          /\ \E over \in {0, MaxOversleep} : clock' = clock + slept' + over
     ELSE /\ slept' = 0
          /\ UNCHANGED << clock, stdout >>
  /\ UNCHANGED << envVars, dataVars, fileVars, requests, response, exc,
                  exitCode >>

GraphqlCheckRateLimit ==
  /\ pc = "gql_check"
  /\ check_rate_limit("gql_raise")

raise_for_status_ignored(next_pc) ==
  /\ pc' = next_pc
  /\ UNCHANGED << envVars, netVars, dataVars, fileVars, clock, stdout,
                  exitCode, exc >>

raise_for_status(next_pc) ==
  /\ IF response.status >= 400
     THEN Raise("HTTPError")
     ELSE pc' = next_pc /\ UNCHANGED exc
  /\ UNCHANGED << envVars, netVars, dataVars, fileVars, clock, stdout,
                  exitCode >>

GraphqlRaiseForStatus ==
  /\ pc = "gql_raise"
  /\ raise_for_status("gql_json")

call_github_graphql ==
  /\ pc = "gql_json"
  /\ IF "errors" \in DOMAIN response.json
     THEN /\ stdout' = stdout \o << "graphql_errors" >>
          /\ Raise("Exception")
     ELSE /\ pc' = "gql_extract"
          /\ UNCHANGED << stdout, exc >>
  /\ UNCHANGED << envVars, netVars, dataVars, fileVars, clock, exitCode >>

get_contributions_and_commits ==
  /\ pc = "gql_extract"
  /\ IF "data" \in DOMAIN response.json
     THEN LET viewer == response.json["data"]
          IN  /\ contributions' = viewer.totalContributions
              /\ commits' = SumSeq(viewer.commitCounts)
              /\ merged_prs' = viewer.totalCount
              /\ url' = FirstReposUrl
              /\ stars' = 0
              /\ pc' = "stars_loop"
              /\ UNCHANGED exc
     ELSE /\ Raise("KeyError")
          /\ UNCHANGED << contributions, commits, merged_prs, url, stars >>
  /\ UNCHANGED << envVars, netVars, fileVars, total_stars, clock, stdout,
                  exitCode >>

RestGetUnchecked ==
  /\ pc = "stars_loop"
  /\ url # << >>
  /\ Len(requests) <= MaxPages + 1
  /\ \/ \E r \in RestResponses(pages, url) :
          Receive("GET", url, r, "rest_raise")
     \/ TransportError("GET", url)
  /\ UNCHANGED << envVars, dataVars, fileVars, clock, stdout, exitCode >>

RestGet ==
  /\ pc = "stars_loop"
  /\ url # << >>
  /\ Len(requests) <= MaxPages + 1
  /\ \/ \E r \in RestResponses(pages, url) :
          Receive("GET", url, r, "rest_check")
     \/ TransportError("GET", url)
  /\ UNCHANGED << envVars, dataVars, fileVars, clock, stdout, exitCode >>

RestCheckRateLimit ==
  /\ pc = "rest_check"
  /\ check_rate_limit("rest_raise")

RestRaiseForStatus ==
  /\ pc = "rest_raise"
  /\ raise_for_status("stars_page")

get_total_stars_page ==
  /\ pc = "stars_page"
  /\ stars' = stars + SumSeq(response.json)
  /\ url' = NextUrl(response.link)
  /\ pc' = "stars_loop"
  /\ UNCHANGED << envVars, netVars, fileVars, total_stars, contributions,
                  commits, merged_prs, clock, exc, stdout, exitCode >>

get_total_stars_return ==
  /\ pc = "stars_loop"
  /\ url = << >>
  /\ total_stars' = stars
  /\ pc' = "readme_read"
  /\ UNCHANGED << envVars, netVars, fileVars, url, stars, contributions,
                  commits, merged_prs, clock, exc, stdout, exitCode >>

update_readme_read ==
  /\ pc = "readme_read"
  /\ IF file.exists
     THEN /\ readme_contents' = file.text
          /\ pc' = "readme_write"
          /\ UNCHANGED exc
     ELSE /\ Raise("FileNotFoundError")
          /\ UNCHANGED readme_contents
  /\ UNCHANGED << envVars, netVars, dataVars, file, writes, clock, stdout,
                  exitCode >>

update_readme_write ==
  /\ pc = "readme_write"
  /\ file' = [exists |-> TRUE,
              text |-> UpdatedReadme(readme_contents, contributions, commits,
                                     total_stars, merged_prs)]
  /\ writes' = writes + 1
  /\ pc' = "success"
  /\ UNCHANGED << envVars, netVars, dataVars, readme_contents, clock, exc,
                  stdout, exitCode >>

MainSuccess ==
  /\ pc = "success"
  /\ stdout' = stdout \o << "success" >>
  /\ pc' = "exit"
  /\ UNCHANGED << envVars, netVars, dataVars, fileVars, clock, exc, exitCode >>

CaughtRequestsOnly ==
  { "ConnectionError", "HTTPError" }

Caught ==
  { "ConnectionError", "HTTPError", "Exception", "KeyError",
    "FileNotFoundError" }

MainExcept ==
  /\ pc = "except"
  /\ IF exc \in Caught
     THEN /\ stdout' = stdout \o << "error" >>
          /\ pc' = "exit"
          /\ UNCHANGED exitCode
     ELSE /\ exitCode' = 1
          /\ pc' = "exited"
          /\ UNCHANGED stdout
  /\ UNCHANGED << envVars, netVars, dataVars, fileVars, clock, exc >>

ExitStatus ==
  0

MainExit ==
  /\ pc = "exit"
  /\ exitCode' = ExitStatus
  /\ pc' = "exited"
  /\ UNCHANGED << envVars, netVars, dataVars, fileVars, clock, exc, stdout >>

Next ==
  \/ ModuleLevel
  \/ GraphqlPost
  \/ GraphqlCheckRateLimit
  \/ GraphqlRaiseForStatus
  \/ call_github_graphql
  \/ get_contributions_and_commits
  \/ RestGet
  \/ RestCheckRateLimit
  \/ RestRaiseForStatus
  \/ get_total_stars_page
  \/ get_total_stars_return
  \/ update_readme_read
  \/ update_readme_write
  \/ MainSuccess
  \/ MainExcept
  \/ MainExit

Spec ==
  Init /\ [][Next]_vars

SpecPatch ==
  InitPatch /\ [][Next]_vars

(* ---------------- vocabulary of the properties ---------------- *)
Occurs(s, sub) ==
  \E i \in 0..(Len(s) - Len(sub)) : SubSeq(s, i + 1, i + Len(sub)) = sub

FirstAt(s, sub) ==
  CHOOSE i \in 0..(Len(s) - Len(sub)) :
    /\ SubSeq(s, i + 1, i + Len(sub)) = sub
    /\ \A j \in 0..(i - 1) : SubSeq(s, j + 1, j + Len(sub)) # sub

LastMessage ==
  IF stdout = << >> THEN None ELSE stdout[Len(stdout)]

NoCredential ==
  \A name \in DOMAIN environ : name = "GH_TOKEN" => Len(environ[name]) = 0

Wrote ==
  writes > 0

Block ==
  NewStats(contributions, commits, total_stars, merged_prs)

BothMarkers ==
  Occurs(readme_contents, start_marker) /\ Occurs(readme_contents, end_marker)

MarkerMissing ==
  ~Occurs(readme_contents, start_marker) \/ ~Occurs(readme_contents, end_marker)

Gets ==
  SelectSeq(requests, LAMBDA r : r.method = "GET")

StarsReturned ==
  pc \in {"readme_read", "readme_write", "success"} \/ Wrote

RemainingLow ==
  /\ "X-RateLimit-Remaining" \in DOMAIN response.headers
  /\ response.headers["X-RateLimit-Remaining"] < 50

Deadline ==
  LET resetSec == IF "X-RateLimit-Reset" \in DOMAIN response.headers
                  THEN response.headers["X-RateLimit-Reset"]
                  ELSE checkEntry \div TicksPerSec
  IN  (resetSec + 1) * TicksPerSec

(* C1: every run that terminates ends with exit status 0; an error raised by *)
(* the GraphQL fetch, the star pagination or the README patch is caught at   *)
(* the top level and an error message is printed before the exit; a          *)
(* successful update prints the success message.                             *)
C1_AlwaysExitZero ==
  pc = "exited" =>
    /\ exitCode = 0
    /\ exc # None => LastMessage = "error"
    /\ (exc = None /\ Wrote) => LastMessage = "success"

C1_Witness ==
  pc = "exited" /\ exc = "FileNotFoundError" /\ Len(Gets) = Len(pages)

(* C2: with GH_TOKEN absent or empty the program exits 0 straight from the   *)
(* module level: no HTTP request is issued and README.md is never written.   *)
C2_NoCredentialNoEffect ==
  NoCredential =>
    /\ requests = << >>
    /\ writes = 0
    /\ pc \in {"module", "exited"}
    /\ pc = "exited" => (exitCode = 0 /\ stdout = << "no_token" >>)

C2_Witness ==
  NoCredential /\ "GH_TOKEN" \in DOMAIN environ /\ pc = "exited"

(* C3: for every README holding both markers, the written text equals the    *)
(* text read up to and including the first start marker and from the first   *)
(* end marker onward, and what lies strictly between the two markers of the  *)
(* written text is exactly the formatted block of the snapshot.              *)
C3_FrameAndBlock ==
  (Wrote /\ BothMarkers) =>
    LET in == readme_contents
        out == file.text
        a == FirstAt(in, start_marker) + Len(start_marker)
        b == FirstAt(in, end_marker)
    IN  /\ Occurs(out, start_marker)
        /\ Occurs(out, end_marker)
        /\ LET oa == FirstAt(out, start_marker) + Len(start_marker)
               ob == FirstAt(out, end_marker)
           IN  /\ SubSeq(out, 1, oa) = SubSeq(in, 1, a)
               /\ SubSeq(out, ob + 1, Len(out)) = SubSeq(in, b + 1, Len(in))
               /\ SubSeq(out, oa + 1, ob) = Block

(* C4: for every README holding both markers, patching the already patched   *)
(* text again with the same snapshot gives the same text.                    *)
C4_Idempotent ==
  (Wrote /\ BothMarkers) =>
    UpdatedReadme(file.text, contributions, commits, total_stars, merged_prs)
      = file.text

(* Both C3 and C4 fail only when the first end marker precedes the first    *)
(* start marker; restricted to READMEs with the markers in order both hold.  *)
MarkersInOrder ==
  /\ BothMarkers
  /\ FirstAt(readme_contents, start_marker) < FirstAt(readme_contents, end_marker)

FrameAndBlockInOrder ==
  MarkersInOrder => C3_FrameAndBlock

IdempotentInOrder ==
  MarkersInOrder => C4_Idempotent

(* C5: the star total returned by get_total_stars is the sum of the star     *)
(* counts of all repositories of all pages of the chain, as if they were on  *)
(* one page.                                                                 *)
C5_StarsSumOverChain ==
  StarsReturned => total_stars = SumSeq(Concat(pages))

C5_Witness ==
  StarsReturned /\ Len(pages) > 1 /\ total_stars > 1

(* C6: after check_rate_limit has returned for a response whose remaining    *)
(* quota is below 50 and whose reset time plus one second lay in the future, *)
(* the clock is at or past reset + 1 s; with a remaining quota of 50 or      *)
(* more, or no remaining-quota header, it did not sleep and no time passed.  *)
C6_RateLimitGuard ==
  checked =>
    /\ (RemainingLow /\ Deadline > checkEntry) =>
         (slept > 0 /\ clock >= Deadline)
    /\ ~RemainingLow => (slept = 0 /\ clock = checkEntry)

C6_Witness ==
  /\ checked
  /\ RemainingLow
  /\ "X-RateLimit-Reset" \in DOMAIN response.headers
  /\ slept > 0

(* C7: README.md is written at most once, and only after the GraphQL call    *)
(* and then every page of the star pagination have succeeded; after a        *)
(* GraphQL errors list or a failed HTTP call nothing was extracted from the  *)
(* failing response, no further request was made, no star total is reported  *)
(* and README.md is not written.                                             *)
C7_WriteOnlyAfterFetches ==
  /\ writes <= 1
  /\ Wrote =>
       /\ exc = None
       /\ Len(requests) = 1 + Len(pages)
       /\ \A i \in 1..Len(requests) :
            /\ requests[i].status = 200
            /\ requests[i].method = IF i = 1 THEN "POST" ELSE "GET"
       /\ total_stars = stars
  /\ exc \in {"ConnectionError", "HTTPError", "Exception", "KeyError"} =>
       /\ writes = 0
       /\ total_stars = 0
       /\ pc \in {"except", "exit", "exited"}
  /\ exc \in {"ConnectionError", "HTTPError"} =>
       requests[Len(requests)].status # 200
  /\ exc \in {"Exception", "KeyError"} =>
       /\ Len(requests) = 1
       /\ contributions = 0 /\ commits = 0 /\ merged_prs = 0

C7_Witness ==
  Wrote /\ Len(requests) > 2 /\ pc = "success"

C9_EachPageOnceInOrder ==
  /\ Len(Gets) <= Len(pages)
  /\ \A i \in 1..Len(Gets) :
       /\ Gets[i].url = IF i = 1 THEN GITHUB_API_URL_REPOS \o OwnerQuery
                        ELSE PageUrl(i)
       /\ i < Len(Gets) => Gets[i].status = 200
  /\ StarsReturned => Len(Gets) = Len(pages)
  /\ (pc = "stars_loop" /\ Len(Gets) = Len(pages)) => url = << >>

C9_Witness ==
  pc = "stars_loop" /\ url = << >> /\ Len(Gets) > 2

(* C10: whenever a response is being validated or used (status check, body   *)
(* check, extraction, summing) its rate-limit check has already returned,    *)
(* and a response that failed validation had its rate-limit check run too.   *)
C10_RateCheckBeforeUse ==
  /\ pc \in {"gql_raise", "gql_json", "gql_extract", "rest_raise", "stars_page"}
       => checked
  /\ exc \in {"HTTPError", "Exception", "KeyError"} => checked

C10_Witness ==
  exc = "HTTPError" /\ checked /\ slept > 0 /\ Len(Gets) > 0
====
